---- MODULE Spec2Model ----
(***************************************************************************)
(* Model of cha-InsecureDefaultConfigReporter (src/main.py): one run of    *)
(* main() over a command line, a configuration file and an optional JSON   *)
(* schema file.  Strings whose characters the program inspects (paths,     *)
(* keys, string values) are sequences of one-character strings.            *)
(***************************************************************************)
EXTENDS Integers, Sequences, FiniteSets, TLC

VARIABLES args, fs, pc, config_data, schema_data, exc, trace, findings, exits

vars == <<args, fs, pc, config_data, schema_data, exc, trace, findings, exits>>

(* ---------------------------------------------------------------------- *)
(* Bounds of the input space                                               *)
(* ---------------------------------------------------------------------- *)
MaxArrayLen == 2

(* ---------------------------------------------------------------------- *)
(* String literals of the program                                          *)
(* ---------------------------------------------------------------------- *)
PASSWORD == <<"p", "a", "s", "s", "w", "o", "r", "d">>
ADMIN == <<"a", "d", "m", "i", "n">>
ADMIN_PASSWORD == ADMIN \o <<"_">> \o PASSWORD
SECURE == <<"S", "3", "c", "u", "r", "e", "!">>
HOST == <<"h", "o", "s", "t">>
PORT == <<"p", "o", "r", "t">>

DOT_YAML == <<".", "y", "a", "m", "l">>
DOT_YML == <<".", "y", "m", "l">>
DOT_JSON == <<".", "j", "s", "o", "n">>

\* str.endswith(suffix)
EndsWith(s, suffix) ==
    /\ Len(suffix) <= Len(s)
    /\ SubSeq(s, Len(s) - Len(suffix) + 1, Len(s)) = suffix

\* "sub in s" for two Python strings: substring test
IsSubstring(sub, s) ==
    \E i \in 0..(Len(s) - Len(sub)) : SubSeq(s, i + 1, i + Len(sub)) = sub

(* ---------------------------------------------------------------------- *)
(* Parsed values: what yaml.safe_load / json.load return                   *)
(* ---------------------------------------------------------------------- *)
Null == [kind |-> "null", v |-> 0]
Bool(b) == [kind |-> "boolean", v |-> b]
Num(n) == [kind |-> "number", v |-> n]
Str(s) == [kind |-> "string", v |-> s]
Arr(a) == [kind |-> "array", v |-> a]
Obj(f) == [kind |-> "object", v |-> f]
Unset == [kind |-> "unset", v |-> 0]

\* Python's == on two parsed values of the model (no error on a type mismatch)
PyEq(x, y) == x.kind = y.kind /\ x.v = y.v

Keys == {PASSWORD, ADMIN_PASSWORD, HOST}
Leaves == {Str(PASSWORD), Str(ADMIN), Str(SECURE), Num(1)}
Elements == {Str(PASSWORD), Str(ADMIN_PASSWORD), Str(SECURE)}

Objects == UNION {{Obj(f) : f \in [S -> Leaves]} : S \in SUBSET Keys}
Arrays == UNION {{Arr(a) : a \in [1..n -> Elements]} : n \in 0..MaxArrayLen}
Scalars == {Null, Bool(TRUE), Bool(FALSE), Num(1),
            Str(PASSWORD), Str(ADMIN_PASSWORD), Str(ADMIN), Str(SECURE)}
Values == Objects \cup Arrays \cup Scalars

(* ---------------------------------------------------------------------- *)
(* Exceptions                                                              *)
(* ---------------------------------------------------------------------- *)
\* The base class of each exception class the run can meet
Parent(cls) ==
    CASE cls = "FileNotFoundError" -> "OSError"
      [] cls = "PermissionError" -> "OSError"
      [] cls = "JSONDecodeError" -> "ValueError"
      [] cls \in {"OSError", "ValueError", "TypeError", "YAMLError",
                  "ValidationError", "SchemaError"} -> "Exception"
      [] OTHER -> "BaseException"

RECURSIVE IsInstance(_, _)
IsInstance(cls, base) ==
    IF cls = base THEN TRUE
    ELSE IF cls = "BaseException" THEN FALSE
    ELSE IsInstance(Parent(cls), base)

\* The except clause of a try statement that catches cls: the first, in
\* textual order, naming a base class of it
RECURSIVE Except(_, _)
Except(clauses, cls) ==
    IF clauses = <<>> THEN "uncaught"
    ELSE IF IsInstance(cls, Head(clauses)) THEN Head(clauses)
    ELSE Except(Tail(clauses), cls)

NoExc == [cls |-> "None", origin |-> "None", stage |-> "none", violations |-> <<>>]

\* An exception of class origin raised inside a try statement whose handlers
\* all re-raise a new exception of the class they name
Reraise(clauses, origin, stage, violations) ==
    [cls |-> Except(clauses, origin), origin |-> origin, stage |-> stage,
     violations |-> violations]

\* An exception raised outside any try statement of the function
Raise(origin, stage) ==
    [cls |-> origin, origin |-> origin, stage |-> stage, violations |-> <<>>]

(* ---------------------------------------------------------------------- *)
(* The file system and the parsers                                         *)
(* ---------------------------------------------------------------------- *)
\* syntax: "json" text is accepted by both parsers, "yaml" text only by the
\* YAML parser, "garbage" by neither
File(exists, readable, syntax, value) ==
    [exists |-> exists, readable |-> readable, syntax |-> syntax, value |-> value]

Missing == File(FALSE, FALSE, "garbage", Unset)
Unreadable == File(TRUE, FALSE, "garbage", Unset)
Garbage == File(TRUE, TRUE, "garbage", Unset)

yaml_safe_load(f) ==
    IF f.syntax \in {"yaml", "json"}
    THEN [exc |-> "None", value |-> f.value]
    ELSE [exc |-> "YAMLError", value |-> Unset]

json_load(f) ==
    IF f.syntax = "json"
    THEN [exc |-> "None", value |-> f.value]
    ELSE [exc |-> "JSONDecodeError", value |-> Unset]

(* ---------------------------------------------------------------------- *)
(* load_config_file                                                        *)
(* ---------------------------------------------------------------------- *)
\* A detection that lets the suffix win over an explicit --type
DetectFileTypeSuffixFirst(config_file, file_type) ==
    IF EndsWith(config_file, DOT_YAML) \/ EndsWith(config_file, DOT_YML)
    THEN "yaml"
    ELSE IF EndsWith(config_file, DOT_JSON) THEN "json"
    ELSE IF file_type = "None" THEN "ValueError"
    ELSE file_type

\* The file type the load settles on: "yaml", "json", or "ValueError"
DetectFileType(config_file, file_type) ==
    IF file_type = "None"
    THEN IF EndsWith(config_file, DOT_YAML) \/ EndsWith(config_file, DOT_YML)
         THEN "yaml"
         ELSE IF EndsWith(config_file, DOT_JSON) THEN "json"
         ELSE "ValueError"
    ELSE file_type

LoadConfigClauses == <<"YAMLError", "JSONDecodeError", "Exception">>

ParserCall(type) == IF type = "yaml" THEN "yaml.safe_load" ELSE "json.load"

\* The events, the returned value and the exception of one call
load_config_file(config_file, file_type, f) ==
    LET stage == "load_config"
        wrap(origin) == Reraise(LoadConfigClauses, origin, stage, <<>>)
        type == DetectFileType(config_file, file_type)
        parsed == IF type = "yaml" THEN yaml_safe_load(f) ELSE json_load(f)
    IN  IF ~f.exists
        THEN [events |-> <<"exists(config)">>, value |-> Unset,
              exc |-> Raise("FileNotFoundError", stage)]
        ELSE IF ~f.readable
        THEN [events |-> <<"exists(config)", "open(config)">>, value |-> Unset,
              exc |-> wrap("PermissionError")]
        ELSE IF type \notin {"yaml", "json"}
        THEN [events |-> <<"exists(config)", "open(config)">>, value |-> Unset,
              exc |-> wrap("ValueError")]
        ELSE IF parsed.exc # "None"
        THEN [events |-> <<"exists(config)", "open(config)", ParserCall(type)>>,
              value |-> Unset, exc |-> wrap(parsed.exc)]
        ELSE [events |-> <<"exists(config)", "open(config)", ParserCall(type)>>,
              value |-> parsed.value, exc |-> NoExc]

(* ---------------------------------------------------------------------- *)
(* load_schema_file                                                        *)
(* ---------------------------------------------------------------------- *)
Schema(type, required) == [kind |-> "schema", v |-> [type |-> type, required |-> required]]

LoadSchemaClauses == <<"JSONDecodeError", "Exception">>

load_schema_file(f) ==
    LET stage == "load_schema"
        wrap(origin) == Reraise(LoadSchemaClauses, origin, stage, <<>>)
        parsed == json_load(f)
    IN  IF ~f.exists
        THEN [events |-> <<"exists(schema)">>, value |-> Unset,
              exc |-> Raise("FileNotFoundError", stage)]
        ELSE IF ~f.readable
        THEN [events |-> <<"exists(schema)", "open(schema)">>, value |-> Unset,
              exc |-> wrap("PermissionError")]
        ELSE IF parsed.exc # "None"
        THEN [events |-> <<"exists(schema)", "open(schema)", "json.load(schema)">>,
              value |-> Unset, exc |-> wrap(parsed.exc)]
        ELSE [events |-> <<"exists(schema)", "open(schema)", "json.load(schema)">>,
              value |-> parsed.value, exc |-> NoExc]

(* ---------------------------------------------------------------------- *)
(* jsonschema.validate and validate_config                                 *)
(* ---------------------------------------------------------------------- *)
TypeNames == {"null", "boolean", "number", "integer", "string", "array", "object"}

\* jsonschema's type check of an instance against a type name
IsType(value, type) ==
    IF type = "integer" THEN value.kind = "number" ELSE value.kind = type

RECURSIVE MissingRequired(_, _)
\* one error per required key the object lacks, in the order of the list
MissingRequired(value, required) ==
    IF required = <<>> THEN <<>>
    ELSE (IF Head(required) \in DOMAIN value.v
          THEN <<>>
          ELSE <<[kind |-> "MissingRequired", key |-> Head(required)]>>)
         \o MissingRequired(value, Tail(required))

\* every error of the instance against the schema, keyword by keyword
iter_errors(value, schema) ==
    (IF schema.v.type # "None" /\ ~IsType(value, schema.v.type)
     THEN <<[kind |-> "TypeMismatch", key |-> <<>>]>>
     ELSE <<>>)
    \o (IF value.kind = "object"
        THEN MissingRequired(value, schema.v.required)
        ELSE <<>>)

\* the error validate raises: of errors of equal relevance, the first
best_match(errors) == Head(errors)

\* A validation whose error carries every violation
validate_all(instance, schema) ==
    IF schema.v.type \notin TypeNames \cup {"None"}
    THEN [exc |-> "SchemaError", violations |-> <<>>]
    ELSE IF iter_errors(instance, schema) # <<>>
    THEN [exc |-> "ValidationError", violations |-> iter_errors(instance, schema)]
    ELSE [exc |-> "None", violations |-> <<>>]

\* jsonschema.validate: the class it raises and the violations the raised
\* error carries
validate(instance, schema) ==
    IF schema.v.type \notin TypeNames \cup {"None"}
    THEN [exc |-> "SchemaError", violations |-> <<>>]
    ELSE IF iter_errors(instance, schema) # <<>>
    THEN [exc |-> "ValidationError",
          violations |-> <<best_match(iter_errors(instance, schema))>>]
    ELSE [exc |-> "None", violations |-> <<>>]

ValidateClauses == <<"ValidationError", "Exception">>

validate_config(data, schema) ==
    LET r == validate(data, schema)
    IN  IF r.exc # "None"
        THEN Reraise(ValidateClauses, r.exc, "validate", r.violations)
        ELSE NoExc

(* ---------------------------------------------------------------------- *)
(* The insecure-default checks of main                                     *)
(* ---------------------------------------------------------------------- *)
\* "key in data": "True", "False" or "TypeError"
Contains(data, key) ==
    CASE data.kind = "object" -> IF key \in DOMAIN data.v THEN "True" ELSE "False"
      [] data.kind = "array" ->
            IF \E i \in DOMAIN data.v : PyEq(data.v[i], Str(key)) THEN "True" ELSE "False"
      [] data.kind = "string" -> IF IsSubstring(key, data.v) THEN "True" ELSE "False"
      [] OTHER -> "TypeError"

\* "key in data and data[key] == forbidden": "True", "False" or "TypeError"
HasDefault(data, key, forbidden) ==
    IF Contains(data, key) # "True" THEN Contains(data, key)
    ELSE IF data.kind # "object" THEN "TypeError"
    ELSE IF PyEq(data.v[key], Str(forbidden)) THEN "True" ELSE "False"

\* The if / elif / else statement: the warnings logged and the exception raised
check_defaults(data) ==
    LET first == HasDefault(data, PASSWORD, PASSWORD)
        second == HasDefault(data, ADMIN_PASSWORD, ADMIN)
    IN  IF first = "TypeError" THEN [exc |-> "TypeError", findings |-> <<>>]
        ELSE IF first = "True" THEN [exc |-> "None", findings |-> <<"password">>]
        ELSE IF second = "TypeError" THEN [exc |-> "TypeError", findings |-> <<>>]
        ELSE IF second = "True" THEN [exc |-> "None", findings |-> <<"admin_password">>]
        ELSE [exc |-> "None", findings |-> <<>>]

(* ---------------------------------------------------------------------- *)
(* The inputs of a run                                                     *)
(* ---------------------------------------------------------------------- *)
ConfigPaths ==
    { <<"c">> \o DOT_YAML, <<"c">> \o DOT_YML, <<"c">> \o DOT_JSON,
      <<"c", ".", "i", "n", "i">>, <<"j", "s", "o", "n">>,
      <<"c">> \o DOT_YAML \o <<".", "b", "a", "k">> }

\* argparse: --type is absent or one of its choices
FileTypes == {"None", "yaml", "json"}

\* An optional command-line string
None == [none |-> TRUE, path |-> <<>>]
Some(path) == [none |-> FALSE, path |-> path]

\* Python truthiness of an optional string
Truthy(opt) == ~opt.none /\ opt.path # <<>>

SchemaPaths == {None, Some(<<>>), Some(<<"s">> \o DOT_JSON)}

ConfigFiles ==
    {Missing, Unreadable, Garbage}
    \cup {File(TRUE, TRUE, syntax, value) : syntax \in {"yaml", "json"}, value \in Values}

Schemas ==
    {Schema(type, required) :
        type \in {"None", "object", "string", "strng"},
        required \in {<<>>, <<HOST, PORT>>}}

SchemaFiles ==
    {Missing, Unreadable, Garbage} \cup {File(TRUE, TRUE, "json", s) : s \in Schemas}

(* ---------------------------------------------------------------------- *)
(* main                                                                    *)
(* ---------------------------------------------------------------------- *)
Init ==
    /\ args \in [config_file : ConfigPaths, type : FileTypes, schema_file : SchemaPaths]
    /\ fs \in [config : ConfigFiles, schema : SchemaFiles]
    /\ ~Truthy(args.schema_file) => fs.schema = Missing
    /\ pc = "load_config"
    /\ config_data = Unset
    /\ schema_data = Unset
    /\ exc = NoExc
    /\ trace = <<>>
    /\ findings = <<>>
    /\ exits = <<>>

\* config_data = load_config_file(args.config_file, args.type)
LoadConfig ==
    /\ pc = "load_config"
    /\ LET r == load_config_file(args.config_file, args.type, fs.config)
       IN  IF r.exc # NoExc
           THEN /\ exc' = r.exc
                /\ trace' = trace \o r.events
                /\ pc' = "except"
                /\ UNCHANGED config_data
           ELSE /\ config_data' = r.value
                /\ trace' = trace \o r.events \o <<"debug: configuration loaded">>
                /\ pc' = "schema"
                /\ UNCHANGED exc
    /\ UNCHANGED <<args, fs, schema_data, findings, exits>>

\* A schema load whose failure is recorded without leaving the try block
LoadSchemaContinue ==
    /\ pc = "schema"
    /\ Truthy(args.schema_file)
    /\ LET r == load_schema_file(fs.schema)
       IN  IF r.exc # NoExc
           THEN /\ exc' = r.exc
                /\ trace' = trace \o r.events
                /\ pc' = "scan"
                /\ UNCHANGED schema_data
           ELSE /\ schema_data' = r.value
                /\ trace' = trace \o r.events \o <<"debug: schema loaded">>
                /\ pc' = "validate"
                /\ UNCHANGED exc
    /\ UNCHANGED <<args, fs, config_data, findings, exits>>

\* if args.schema_file: schema_data = load_schema_file(args.schema_file)
LoadSchema ==
    /\ pc = "schema"
    /\ Truthy(args.schema_file)
    /\ LET r == load_schema_file(fs.schema)
       IN  IF r.exc # NoExc
           THEN /\ exc' = r.exc
                /\ trace' = trace \o r.events
                /\ pc' = "except"
                /\ UNCHANGED schema_data
           ELSE /\ schema_data' = r.value
                /\ trace' = trace \o r.events \o <<"debug: schema loaded">>
                /\ pc' = "validate"
                /\ UNCHANGED exc
    /\ UNCHANGED <<args, fs, config_data, findings, exits>>

\* A skipped validation that is logged as a successful one
SkipValidationReportsValid ==
    /\ pc = "schema"
    /\ ~Truthy(args.schema_file)
    /\ trace' = Append(trace, "info: configuration is valid")
    /\ pc' = "scan"
    /\ UNCHANGED <<args, fs, config_data, schema_data, exc, findings, exits>>

\* else: logging.warning("No schema file provided. Skipping validation.")
SkipValidation ==
    /\ pc = "schema"
    /\ ~Truthy(args.schema_file)
    /\ trace' = Append(trace, "warning: skipping validation")
    /\ pc' = "scan"
    /\ UNCHANGED <<args, fs, config_data, schema_data, exc, findings, exits>>

\* A validation whose failure is swallowed: the run goes on to the scan
ValidateConfigSwallow ==
    /\ pc = "validate"
    /\ LET e == validate_config(config_data, schema_data)
       IN  IF e # NoExc
           THEN /\ trace' = Append(trace, "validate")
                /\ pc' = "scan"
           ELSE /\ trace' = trace \o <<"validate", "info: configuration is valid">>
                /\ pc' = "scan"
    /\ UNCHANGED <<args, fs, config_data, schema_data, exc, findings, exits>>

\* validate_config(config_data, schema_data); logging.info("... is valid ...")
ValidateConfig ==
    /\ pc = "validate"
    /\ LET e == validate_config(config_data, schema_data)
       IN  IF e # NoExc
           THEN /\ exc' = e
                /\ trace' = Append(trace, "validate")
                /\ pc' = "except"
           ELSE /\ trace' = trace \o <<"validate", "info: configuration is valid">>
                /\ pc' = "scan"
                /\ UNCHANGED exc
    /\ UNCHANGED <<args, fs, config_data, schema_data, findings, exits>>

\* the insecure configuration checks
CheckDefaults ==
    /\ pc = "scan"
    /\ LET r == check_defaults(config_data)
       IN  IF r.exc # "None"
           THEN /\ exc' = Raise(r.exc, "scan")
                /\ trace' = Append(trace, "scan")
                /\ pc' = "except"
                /\ UNCHANGED findings
           ELSE /\ findings' = r.findings
                /\ trace' = trace \o <<"scan">>
                     \o (IF r.findings = <<>> THEN <<"info: no default password found">>
                         ELSE <<"warning: insecure default detected">>)
                /\ pc' = "return"
                /\ UNCHANGED exc
    /\ UNCHANGED <<args, fs, config_data, schema_data, exits>>

MainClauses ==
    <<"FileNotFoundError", "ValueError", "YAMLError", "JSONDecodeError",
      "ValidationError", "Exception">>

\* The except clause of main that handles the exception in flight
Handler == Except(MainClauses, exc.cls)

\* A ValidationError clause that logs the error and forgets to exit
ExitStatusLenient(clause) == IF clause = "ValidationError" THEN 0 ELSE 1

\* sys.exit(1) of every except clause
ExitStatus(clause) == 1

\* except ... as e: logging.error(e); sys.exit(1)
HandleException ==
    /\ pc = "except"
    /\ trace' = Append(trace, "error")
    /\ exits' = Append(exits, ExitStatus(Handler))
    /\ pc' = "done"
    /\ UNCHANGED <<args, fs, config_data, schema_data, exc, findings>>

\* main returns: the interpreter exits with status 0
Return ==
    /\ pc = "return"
    /\ exits' = Append(exits, 0)
    /\ pc' = "done"
    /\ UNCHANGED <<args, fs, config_data, schema_data, exc, trace, findings>>

Next ==
    \/ LoadConfig
    \/ LoadSchema
    \/ SkipValidation
    \/ ValidateConfig
    \/ CheckDefaults
    \/ HandleException
    \/ Return

Spec == Init /\ [][Next]_vars

(* ---------------------------------------------------------------------- *)
(* Properties                                                              *)
(* ---------------------------------------------------------------------- *)
Has(event) == \E i \in DOMAIN trace : trace[i] = event

\* the position of the first occurrence of an event of the trace
Idx(event) == CHOOSE i \in DOMAIN trace : trace[i] = event /\ \A j \in 1..(i - 1) : trace[j] # event

Precedes(a, b) == Has(a) /\ Has(b) /\ Idx(a) < Idx(b)

Reported(rule) == \E i \in DOMAIN findings : findings[i] = rule

HasPair(key, forbidden) ==
    /\ config_data.kind = "object"
    /\ key \in DOMAIN config_data.v
    /\ PyEq(config_data.v[key], Str(forbidden))

Unresolvable(path) ==
    ~(EndsWith(path, DOT_YAML) \/ EndsWith(path, DOT_YML) \/ EndsWith(path, DOT_JSON))

\* The error class of the design's taxonomy an exception class stands for
ErrorKind(cls) ==
    CASE cls = "FileNotFoundError" -> "FileNotFound"
      [] cls = "ValueError" -> "UnsupportedFormat"
      [] cls \in {"YAMLError", "JSONDecodeError"} -> "ParseError"
      [] cls = "ValidationError" -> "ValidationFailure"
      [] OTHER -> "UnexpectedError"

\* C1: once the scan of an object document has completed, the password rule
\* is reported iff password == "password" and the admin_password rule is
\* reported iff admin_password == "admin", each regardless of the other.
C1_RulesIndependent ==
    (pc \in {"return", "done"} /\ exc = NoExc /\ config_data.kind = "object") =>
        /\ Reported("password") <=> HasPair(PASSWORD, PASSWORD)
        /\ Reported("admin_password") <=> HasPair(ADMIN_PASSWORD, ADMIN)

C3_UnsupportedFormatBeforeOpen ==
    (pc = "done" /\ args.type = "None" /\ Unresolvable(args.config_file)) =>
        /\ ~Has("exists(config)")
        /\ ~Has("open(config)")
        /\ exc.origin = "ValueError"
        /\ Handler = "ValueError"

\* C4: a run ends with exactly one exit status, non-zero iff a failure
\* occurred; a finding alone leaves it 0.
C4_ExitStatus ==
    /\ pc # "done" => exits = <<>>
    /\ pc = "done" =>
        /\ Len(exits) = 1
        /\ exits[1] # 0 <=> exc # NoExc
        /\ (findings # <<>> /\ exc = NoExc) => exits[1] = 0

C4_Witness == pc = "done" /\ findings # <<>> /\ exits = <<0>>

\* C5: the scan never raises, whatever the kind of the parsed document.
C5_ScanNeverRaises == Has("scan") => exc.stage # "scan"

\* C6: with no schema path the schema is never loaded, validate_config is
\* never called, no violation is reported, the run logs that validation is
\* skipped and never logs the configuration as valid; the valid log appears
\* only after a schema was given and loaded and validate_config returned.
C6_UnvalidatedWithoutSchema ==
    /\ ~Truthy(args.schema_file) =>
        /\ ~Has("exists(schema)") /\ ~Has("open(schema)") /\ ~Has("json.load(schema)")
        /\ schema_data = Unset
        /\ ~Has("validate")
        /\ exc.violations = <<>> /\ exc.stage # "validate"
        /\ ~Has("info: configuration is valid")
        /\ (Has("debug: configuration loaded") /\ pc # "schema") =>
              Has("warning: skipping validation")
    /\ Has("info: configuration is valid") =>
        /\ Truthy(args.schema_file)
        /\ Precedes("debug: schema loaded", "validate")
        /\ Precedes("validate", "info: configuration is valid")
        /\ exc.stage # "validate"
        /\ ~Has("warning: skipping validation")

C6_Witness ==
    /\ pc = "done"
    /\ ~Truthy(args.schema_file)
    /\ Has("warning: skipping validation")
    /\ Has("scan")

\* C7: a failure reaches main under the error class in which it was
\* detected, and the catch-all clause runs only for unclassified failures.
C7_ErrorClassPreserved ==
    (pc = "done" /\ exc # NoExc) =>
        /\ ErrorKind(exc.cls) = ErrorKind(exc.origin)
        /\ Handler = "Exception" => ErrorKind(exc.origin) = "UnexpectedError"

\* C8: an explicit type decides the parser whatever the suffix; without one
\* .yaml/.yml is parsed as YAML and .json as JSON; without one and with any
\* other suffix the load fails and no parser is invoked.
C8_FormatResolution ==
    LET path == args.config_file
        yaml == Has("yaml.safe_load")
        json == Has("json.load")
        opened == Has("open(config)") /\ fs.config.readable
    IN  /\ args.type = "yaml" => ~json /\ (opened => yaml)
        /\ args.type = "json" => ~yaml /\ (opened => json)
        /\ (args.type = "None" /\ (EndsWith(path, DOT_YAML) \/ EndsWith(path, DOT_YML))) =>
              ~json /\ (opened => yaml)
        /\ (args.type = "None" /\ EndsWith(path, DOT_JSON)) => ~yaml /\ (opened => json)
        /\ (args.type = "None" /\ Unresolvable(path)) =>
              /\ ~yaml /\ ~json
              /\ pc # "load_config" => exc.stage = "load_config"

C8_Witness ==
    /\ pc = "done"
    /\ args.type = "json"
    /\ EndsWith(args.config_file, DOT_YAML)
    /\ Has("json.load")
    /\ ~Has("yaml.safe_load")

C10_StagesSequential ==
    /\ Has("exists(schema)") => Precedes("debug: configuration loaded", "exists(schema)")
    /\ Has("validate") =>
        /\ Precedes("debug: configuration loaded", "validate")
        /\ Precedes("debug: schema loaded", "validate")
    /\ Has("scan") =>
        /\ Precedes("debug: configuration loaded", "scan")
        /\ Truthy(args.schema_file) => Precedes("info: configuration is valid", "scan")
    /\ exc.stage \in {"load_config", "load_schema"} => ~Has("validate") /\ ~Has("scan")

C10_Witness ==
    /\ pc = "done"
    /\ Precedes("validate", "scan")
    /\ Precedes("exists(schema)", "validate")

====
